---- MODULE Spec2Model ----
(***************************************************************************)
(* A model of hello.py: the greet formatter, the strict and the tolerant   *)
(* batch formatters, and the Greeter class with its history and            *)
(* statistics.                                                             *)
(*                                                                         *)
(* A Python str is modelled as a sequence of one-character strings, so     *)
(* that strip, title, split and rstrip are computed character by          *)
(* character.  A Python value is a record [t, v]: t is the type's name and *)
(* v the characters of a str (<<>> for the other types).                   *)
(***************************************************************************)
EXTENDS Integers, Sequences, FiniteSets, TLC

\* Longest text drawn as an argument of greet.
MaxLen == 3
\* Longest list of names drawn as an argument of the batch formatters.
MaxNames == 4
\* Longest greeting_history the Greeter is driven to.
MaxHist == 2

-----------------------------------------------------------------------------
\* Values

Text(s) == [t |-> "str", v |-> s]
None == [t |-> "NoneType", v |-> <<>>]
Int123 == [t |-> "int", v |-> <<>>]
NonText == {None, Int123}

\* isinstance(x, str)
IsStr(x) == x.t = "str"

\* The default of the greeting parameter of greet, greet_multiple,
\* greet_multiple_safe and Greeter.__init__.
Hello == <<"H", "e", "l", "l", "o">>

\* The characters the arguments of greet are drawn from: a letter, two
\* whitespace characters and a punctuation mark.
Alphabet == {"a", " ", "\t", ","}

\* All texts of length at most n over the characters cs.
RECURSIVE StringsOver(_, _)
StringsOver(cs, n) ==
    IF n = 0 THEN {<<>>}
    ELSE LET shorter == StringsOver(cs, n - 1)
         IN  shorter \cup {Append(s, c) : s \in shorter, c \in cs}

-----------------------------------------------------------------------------
\* str methods

\* str.isspace() of one character
IsSpace(c) == c \in {" ", "\t"}

\* str.lstrip()
RECURSIVE lstrip(_)
lstrip(s) ==
    IF s # <<>> /\ IsSpace(Head(s)) THEN lstrip(Tail(s)) ELSE s

\* str.rstrip()
RECURSIVE rstrip(_)
rstrip(s) ==
    IF s # <<>> /\ IsSpace(s[Len(s)]) THEN rstrip(SubSeq(s, 1, Len(s) - 1)) ELSE s

\* A strip that forgets the right-hand side.
strip_left_only(s) == lstrip(s)

\* str.strip()
strip(s) == rstrip(lstrip(s))

\* str.rstrip(chars)
RECURSIVE rstrip_chars(_, _)
rstrip_chars(s, chars) ==
    IF s # <<>> /\ s[Len(s)] \in chars
    THEN rstrip_chars(SubSeq(s, 1, Len(s) - 1), chars)
    ELSE s

IsUpper(c) == c \in {"A", "B", "E", "H", "L", "O"}
IsLower(c) == c \in {"a", "b", "e", "h", "l", "o"}
IsCased(c) == IsUpper(c) \/ IsLower(c)

\* str.upper() and str.lower() of one character
ToUpper(c) ==
    CASE c = "a" -> "A" [] c = "b" -> "B" [] c = "e" -> "E" [] c = "h" -> "H"
      [] c = "l" -> "L" [] c = "o" -> "O" [] OTHER -> c
ToLower(c) ==
    CASE c = "A" -> "a" [] c = "B" -> "b" [] c = "E" -> "e" [] c = "H" -> "h"
      [] c = "L" -> "l" [] c = "O" -> "o" [] OTHER -> c

\* str.title(): a cased character that follows an uncased one (or starts the
\* text) is upper-cased, a cased character that follows a cased one is
\* lower-cased, every other character is kept.
RECURSIVE title_from(_, _)
title_from(s, prevCased) ==
    IF s = <<>> THEN <<>>
    ELSE LET c == Head(s)
             d == IF ~IsCased(c) THEN c
                  ELSE IF prevCased THEN ToLower(c) ELSE ToUpper(c)
         IN  <<d>> \o title_from(Tail(s), IsCased(c))

\* A title that upper-cases first letters but keeps the rest as written.
title_keep_rest(s) ==
    [i \in 1..Len(s) |->
        IF IsCased(s[i]) /\ (i = 1 \/ ~IsCased(s[i - 1])) THEN ToUpper(s[i]) ELSE s[i]]

title(s) == title_from(s, FALSE)

\* Does sep occur in s at position i?
OccursAt(s, sep, i) ==
    /\ i >= 1
    /\ i + Len(sep) - 1 <= Len(s)
    /\ SubSeq(s, i, i + Len(sep) - 1) = sep

\* str.split(sep) for a non-empty sep: the pieces between the successive,
\* non-overlapping occurrences of sep, scanned from the left.
RECURSIVE split_from(_, _, _)
split_from(s, sep, piece) ==
    IF s = <<>> THEN <<piece>>
    ELSE IF OccursAt(s, sep, 1)
         THEN <<piece>> \o split_from(SubSeq(s, Len(sep) + 1, Len(s)), sep, <<>>)
         ELSE split_from(Tail(s), sep, Append(piece, Head(s)))

split(s, sep) == split_from(s, sep, <<>>)

-----------------------------------------------------------------------------
\* Log entries and outcomes

\* One entry of the module-level logger: its level, the call site that
\* emitted it, and the values formatted into its message.
LogEntry(level, event, data) == [level |-> level, event |-> event, data |-> data]

\* The outcome of a call: kind is "ok" or the raised exception's type, val
\* the returned value (<<>> when the call raised), log the entries emitted.
Returned(val, log) == [kind |-> "ok", val |-> val, log |-> log]
Raised(exc, log) == [kind |-> exc, val |-> <<>>, log |-> log]

-----------------------------------------------------------------------------
\* greet

\* A greet that also trims the greeting word.
greet_trims_greeting(name, greeting) ==
    IF ~IsStr(name) THEN Raised("TypeError", <<>>)
    ELSE IF ~IsStr(greeting) THEN Raised("TypeError", <<>>)
    ELSE IF name.v = <<>> \/ strip(name.v) = <<>> THEN Raised("ValueError", <<>>)
    ELSE Returned(strip(greeting.v) \o <<",", " ">> \o strip(name.v) \o <<"!">>,
                  <<LogEntry("INFO", "greet", name.v)>>)

\* A greet that checks only for the empty name, not for a blank one.
greet_accepts_blank(name, greeting) ==
    IF ~IsStr(name) THEN Raised("TypeError", <<>>)
    ELSE IF ~IsStr(greeting) THEN Raised("TypeError", <<>>)
    ELSE IF name.v = <<>> THEN Raised("ValueError", <<>>)
    ELSE Returned(greeting.v \o <<",", " ">> \o strip(name.v) \o <<"!">>,
                  <<LogEntry("INFO", "greet", name.v)>>)

greet(name, greeting) ==
    IF ~IsStr(name) THEN Raised("TypeError", <<>>)
    ELSE IF ~IsStr(greeting) THEN Raised("TypeError", <<>>)
    ELSE IF name.v = <<>> \/ strip(name.v) = <<>> THEN Raised("ValueError", <<>>)
    ELSE Returned(greeting.v \o <<",", " ">> \o strip(name.v) \o <<"!">>,
                  <<LogEntry("INFO", "greet", name.v)>>)

-----------------------------------------------------------------------------
\* greet_multiple

\* A loop that drops the name that raises and carries on.
RECURSIVE greet_multiple_loop_skips(_, _, _, _)
greet_multiple_loop_skips(names, greeting, greetings, log) ==
    IF names = <<>> THEN Returned(greetings, log)
    ELSE LET r == greet(Head(names), greeting)
         IN  IF r.kind # "ok"
             THEN greet_multiple_loop_skips(Tail(names), greeting, greetings, log \o r.log)
             ELSE greet_multiple_loop_skips(Tail(names), greeting,
                                            Append(greetings, r.val), log \o r.log)

\* The loop of greet_multiple over the names not yet visited: greetings and
\* log are what the loop has built so far; the first greet that raises ends
\* the loop and the call with its exception.
RECURSIVE greet_multiple_loop(_, _, _, _)
greet_multiple_loop(names, greeting, greetings, log) ==
    IF names = <<>> THEN Returned(greetings, log)
    ELSE LET r == greet(Head(names), greeting)
         IN  IF r.kind # "ok" THEN Raised(r.kind, log \o r.log)
             ELSE greet_multiple_loop(Tail(names), greeting,
                                      Append(greetings, r.val), log \o r.log)

\* names is a list ([t |-> "list", v |-> the elements]) or another value.
List(elems) == [t |-> "list", v |-> elems]
IsList(x) == x.t = "list"

greet_multiple(names, greeting) ==
    IF ~IsList(names) THEN Raised("TypeError", <<>>)
    ELSE IF ~IsStr(greeting) THEN Raised("TypeError", <<>>)
    ELSE greet_multiple_loop(names.v, greeting, <<>>,
                             <<LogEntry("INFO", "greet_multiple", Len(names.v))>>)

-----------------------------------------------------------------------------
\* greet_multiple_safe

\* A loop that guards on the type of the name only, leaving the blank names
\* to the except clause, and does not count what the except clause skips.
RECURSIVE greet_multiple_safe_loop_uncounted(_, _, _, _, _)
greet_multiple_safe_loop_uncounted(names, greeting, greetings, skipped_count, log) ==
    IF names = <<>>
    THEN Returned(greetings,
                  Append(log, LogEntry("INFO", "greet_multiple_safe",
                                       <<Len(greetings), skipped_count>>)))
    ELSE LET name == Head(names)
             skip == LogEntry("WARNING", "greet_multiple_safe", name)
         IN  IF IsStr(name)
             THEN LET r == greet(name, greeting)
                  IN  IF r.kind = "ok"
                      THEN greet_multiple_safe_loop_uncounted(Tail(names), greeting,
                               Append(greetings, r.val), skipped_count, log \o r.log)
                      ELSE greet_multiple_safe_loop_uncounted(Tail(names), greeting,
                               greetings, skipped_count, Append(log \o r.log, skip))
             ELSE greet_multiple_safe_loop_uncounted(Tail(names), greeting,
                      greetings, skipped_count + 1, Append(log, skip))

\* The loop of greet_multiple_safe over the names not yet visited.
RECURSIVE greet_multiple_safe_loop(_, _, _, _, _)
greet_multiple_safe_loop(names, greeting, greetings, skipped_count, log) ==
    IF names = <<>>
    THEN Returned(greetings,
                  Append(log, LogEntry("INFO", "greet_multiple_safe",
                                       <<Len(greetings), skipped_count>>)))
    ELSE LET name == Head(names)
             skip == LogEntry("WARNING", "greet_multiple_safe", name)
         IN  IF IsStr(name) /\ strip(name.v) # <<>>
             THEN LET r == greet(name, greeting)
                  IN  IF r.kind = "ok"
                      THEN greet_multiple_safe_loop(Tail(names), greeting,
                               Append(greetings, r.val), skipped_count, log \o r.log)
                      ELSE greet_multiple_safe_loop(Tail(names), greeting,
                               greetings, skipped_count + 1, Append(log \o r.log, skip))
             ELSE greet_multiple_safe_loop(Tail(names), greeting,
                      greetings, skipped_count + 1, Append(log, skip))

greet_multiple_safe(names, greeting) ==
    IF ~IsList(names) THEN Raised("TypeError", <<>>)
    ELSE IF ~IsStr(greeting) THEN Raised("TypeError", <<>>)
    ELSE greet_multiple_safe_loop(names.v, greeting, <<>>, 0, <<>>)

-----------------------------------------------------------------------------
\* Greeter: pure parts

\* The greeting words of the stored messages: msg.split(',')[0].
greeting_words(history) == [i \in 1..Len(history) |-> split(history[i], <<",">>)[1]]

\* Counter(words).most_common(1)[0][0]: the word of the highest count; among
\* words of equal count the one inserted first, that is, seen first.
Count(words, w) == Cardinality({i \in 1..Len(words) : words[i] = w})
FirstIndex(words, w) == CHOOSE i \in 1..Len(words) :
    words[i] = w /\ \A j \in 1..(i - 1) : words[j] # w
most_common(words) ==
    CHOOSE w \in {words[i] : i \in 1..Len(words)} :
        \A u \in {words[i] : i \in 1..Len(words)} :
            \/ Count(words, w) > Count(words, u)
            \/ Count(words, w) = Count(words, u)
               /\ FirstIndex(words, w) <= FirstIndex(words, u)

\* The names of the stored messages: msg.split(', ')[1].rstrip('!').
extracted_names(history) ==
    [i \in 1..Len(history) |-> rstrip_chars(split(history[i], <<",", " ">>)[2], {"!"})]

\* The dict get_statistics returns.
Statistics(total, unique, common) ==
    [total_greetings |-> total, unique_names |-> unique, most_common_greeting |-> common]

\* A get_statistics without the early return for an empty history:
\* Counter([]).most_common(1)[0] then raises IndexError.
get_statistics_no_empty_case(history) ==
    IF Len(history) = 0 THEN Raised("IndexError", <<>>)
    ELSE LET names == extracted_names(history)
         IN  Returned(Statistics(Len(history),
                                 Cardinality({names[i] : i \in 1..Len(names)}),
                                 Text(most_common(greeting_words(history)))),
                      <<>>)

get_statistics(history) ==
    IF Len(history) = 0 THEN Returned(Statistics(0, 0, None), <<>>)
    ELSE IF \E i \in 1..Len(history) : Len(split(history[i], <<",", " ">>)) < 2
    THEN Raised("IndexError", <<>>)
    ELSE LET names == extracted_names(history)
         IN  Returned(Statistics(Len(history),
                                 Cardinality({names[i] : i \in 1..Len(names)}),
                                 Text(most_common(greeting_words(history)))),
                      <<>>)

\* greeting_history after lines 245-246 of Greeter.greet: the message is
\* appended unless greet raised, in which case the append is never reached.
\* (A variant that records the call whatever its outcome comes first.)
history_records_failures(history, r) == Append(history, r.val)

history_after_greet(history, r) ==
    IF r.kind = "ok" THEN Append(history, r.val) ELSE history

-----------------------------------------------------------------------------
\* State

VARIABLES
    op,                 \* the call made last ("" before the first)
    args,               \* its arguments
    ret,                \* its outcome
    constructed,        \* does the Greeter instance exist?
    default_greeting,   \* Greeter.default_greeting
    case_sensitive,     \* Greeter.case_sensitive
    greeting_history,   \* Greeter.greeting_history
    ctor,               \* history variable: the constructor's arguments
    returned,           \* history variable: what the successful Greeter.greet
                        \* calls returned since the last clear_history
    used                \* history variable: the names those calls formatted

greeter == <<constructed, default_greeting, case_sensitive, greeting_history>>
ghost == <<ctor, returned, used>>
vars == <<op, args, ret, constructed, default_greeting, case_sensitive,
          greeting_history, ctor, returned, used>>

\* The state before any call: no Greeter exists yet.
Idle ==
    /\ op = ""
    /\ ret = Returned(<<>>, <<>>)
    /\ constructed = FALSE
    /\ default_greeting = <<>>
    /\ case_sensitive = TRUE
    /\ greeting_history = <<>>
    /\ ctor = <<>>
    /\ returned = <<>>
    /\ used = <<>>

-----------------------------------------------------------------------------
\* Inputs

Texts(cs, n) == {Text(s) : s \in StringsOver(cs, n)}

\* greet: every text up to MaxLen and the values that are no text; the
\* greeting may also be left to its default.
GreetNames == Texts(Alphabet, MaxLen) \cup NonText
GreetGreetings == Texts({"a", " "}, MaxLen) \cup NonText \cup {Text(Hello)}

\* The batch formatters: lists up to MaxNames of names that are plain,
\* padded, blank, empty or no text, or a value that is no list.
BatchElements ==
    { Text(<<"a">>), Text(<<"A">>), Text(<<" ", "a", " ">>), Text(<<" ">>), Text(<<>>),
      None, Int123 }
RECURSIVE ListsOver(_, _)
ListsOver(elems, n) ==
    IF n = 0 THEN {<<>>}
    ELSE LET shorter == ListsOver(elems, n - 1)
         IN  shorter \cup {Append(l, e) : l \in shorter, e \in elems}
BatchNames == {List(l) : l \in ListsOver(BatchElements, MaxNames)} \cup {None}
BatchGreetings == {Text(Hello), Text(<<" ", "a">>), Int123}

\* Greeter(...): the default greeting left to its default, padded, blank,
\* empty, or no text.
CtorGreetings ==
    {Text(Hello), Text(<<" ", "a", "b", " ">>), Text(<<" ">>), Text(<<>>), Int123}

\* Greeter.greet: names that are plain, padded, of mixed case, ending in the
\* "!" or holding the ", " that get_statistics parses on, blank, empty, or no
\* text; the greeting omitted (None), a word, or no text.
GreeterNames ==
    { Text(<<"a">>), Text(<<" ", "a", " ">>), Text(<<"a", "B">>), Text(<<"a", "!">>),
      Text(<<"a", ",", " ", "b">>), Text(<<" ">>), Text(<<>>), None }
GreeterGreetings == {None, Text(<<"a">>), Int123}

-----------------------------------------------------------------------------
\* Calls of the module's functions.  Each is one call on arguments drawn by
\* the initial state.

InitGreet ==
    /\ Idle
    /\ args \in [name : GreetNames, greeting : GreetGreetings]

CallGreet ==
    /\ op = ""
    /\ op' = "greet"
    /\ ret' = greet(args.name, args.greeting)
    /\ UNCHANGED <<args, greeter, ghost>>

NextGreet == CallGreet
SpecGreet == InitGreet /\ [][NextGreet]_vars

InitBatch ==
    /\ Idle
    /\ args \in [names : BatchNames, greeting : BatchGreetings]

CallGreetMultiple ==
    /\ op = ""
    /\ op' = "greet_multiple"
    /\ ret' = greet_multiple(args.names, args.greeting)
    /\ UNCHANGED <<args, greeter, ghost>>

CallGreetMultipleSafe ==
    /\ op = ""
    /\ op' = "greet_multiple_safe"
    /\ ret' = greet_multiple_safe(args.names, args.greeting)
    /\ UNCHANGED <<args, greeter, ghost>>

NextBatch == CallGreetMultiple \/ CallGreetMultipleSafe
SpecBatch == InitBatch /\ [][NextBatch]_vars

-----------------------------------------------------------------------------
\* The Greeter

Init ==
    /\ Idle
    /\ args = <<>>

\* Greeter(default_greeting, case_sensitive)
New ==
    \E greeting \in CtorGreetings, cs \in BOOLEAN :
        /\ ~constructed
        /\ op' = "Greeter"
        /\ args' = [default_greeting |-> greeting, case_sensitive |-> cs]
        /\ IF ~IsStr(greeting)
           THEN /\ ret' = Raised("TypeError", <<>>)
                /\ UNCHANGED <<greeter, ghost>>
           ELSE IF strip(greeting.v) = <<>>
           THEN /\ ret' = Raised("ValueError", <<>>)
                /\ UNCHANGED <<greeter, ghost>>
           ELSE /\ default_greeting' = strip(greeting.v)
                /\ case_sensitive' = cs
                /\ greeting_history' = <<>>
                /\ constructed' = TRUE
                /\ ret' = Returned(<<>>, <<LogEntry("INFO", "Greeter", strip(greeting.v))>>)
                /\ ctor' = [default_greeting |-> greeting, case_sensitive |-> cs]
                /\ UNCHANGED <<returned, used>>

\* Greeter.greet(name, greeting); the history is driven up to MaxHist.
GreeterGreet ==
    \E name \in GreeterNames, greeting \in GreeterGreetings :
        LET g == IF greeting = None THEN Text(default_greeting) ELSE greeting
            n == IF ~case_sensitive /\ IsStr(name) THEN Text(title(name.v)) ELSE name
            r == greet(n, g)
        IN  /\ constructed
            /\ r.kind = "ok" => Len(greeting_history) < MaxHist
            /\ op' = "Greeter.greet"
            /\ args' = [name |-> name, greeting |-> greeting]
            /\ ret' = r
            /\ IF r.kind = "ok"
               THEN /\ returned' = Append(returned, r.val)
                    /\ used' = Append(used, n.v)
               ELSE UNCHANGED <<returned, used>>
            /\ greeting_history' = history_after_greet(greeting_history, r)
            /\ UNCHANGED <<constructed, default_greeting, case_sensitive, ctor>>

\* Greeter.get_statistics()
GetStatistics ==
    /\ constructed
    /\ op' = "Greeter.get_statistics"
    /\ args' = <<>>
    /\ ret' = get_statistics(greeting_history)
    /\ UNCHANGED <<greeter, ghost>>

\* Greeter.clear_history()
ClearHistory ==
    /\ constructed
    /\ op' = "Greeter.clear_history"
    /\ args' = <<>>
    /\ ret' = Returned(<<>>, <<LogEntry("INFO", "clear_history", Len(greeting_history))>>)
    /\ greeting_history' = <<>>
    /\ returned' = <<>>
    /\ used' = <<>>
    /\ UNCHANGED <<constructed, default_greeting, case_sensitive, ctor>>

Next == New \/ GreeterGreet \/ GetStatistics \/ ClearHistory
Spec == Init /\ [][Next]_vars

-----------------------------------------------------------------------------
\* Reference notions the properties are stated with

Min(S) == CHOOSE x \in S : \A y \in S : x <= y
Max(S) == CHOOSE x \in S : \A y \in S : x >= y

\* s has at least one character that is no whitespace.
HasText(s) == \E i \in 1..Len(s) : ~IsSpace(s[i])

\* s without its leading and trailing whitespace: what lies between its first
\* and its last character that is no whitespace.
Trimmed(s) ==
    LET solid == {i \in 1..Len(s) : ~IsSpace(s[i])}
    IN  IF solid = {} THEN <<>> ELSE SubSeq(s, Min(solid), Max(solid))

\* "<greeting>, <name>!"
Message(greeting, name) == greeting \o <<",", " ">> \o name \o <<"!">>

\* A valid name: a text with at least one character that is no whitespace.
ValidName(x) == IsStr(x) /\ HasText(x.v)

\* Title case: the first letter of every run of letters in upper case, the
\* other letters of the run in lower case.
TitleCased(s) ==
    [i \in 1..Len(s) |->
        IF ~IsCased(s[i]) THEN s[i]
        ELSE IF i > 1 /\ IsCased(s[i - 1]) THEN ToLower(s[i]) ELSE ToUpper(s[i])]

\* The text of a message before its first comma.
TextBeforeFirstComma(m) ==
    LET commas == {i \in 1..Len(m) : m[i] = ","}
    IN  IF commas = {} THEN m ELSE SubSeq(m, 1, Min(commas) - 1)

\* The text of a message between its first ", " and its trailing "!".
TextBetweenFirstCommaSpaceAndBang(m) ==
    LET seps == {i \in 1..(Len(m) - 1) : m[i] = "," /\ m[i + 1] = " "}
    IN  SubSeq(m, Min(seps) + 2, Len(m) - 1)

\* The word of the highest count in words; of the words that tie, the one
\* that occurs earliest.
MostFrequentEarliest(words) ==
    LET count(w) == Cardinality({i \in 1..Len(words) : words[i] = w})
        best == Max({count(words[i]) : i \in 1..Len(words)})
    IN  words[Min({i \in 1..Len(words) : count(words[i]) = best})]

-----------------------------------------------------------------------------
\* Properties

\* C1: for a text name with a character that is no whitespace and any text
\* greeting, greet returns greeting + ", " + the name trimmed on both sides
\* + "!", the greeting being used as given, untrimmed.
C1_GreetFormatsTrimmedName ==
    (op = "greet" /\ IsStr(args.name) /\ IsStr(args.greeting) /\ HasText(args.name.v))
        => /\ ret.kind = "ok"
           /\ ret.val = Message(args.greeting.v, Trimmed(args.name.v))

\* C1, witness: a name padded on both sides greeted with a padded greeting.
C1_Witness ==
    /\ op = "greet"
    /\ args.name = Text(<<" ", "a", "\t">>)
    /\ args.greeting = Text(<<" ", "a", " ">>)
    /\ ret.kind = "ok"
    /\ ret.val = <<" ", "a", " ", ",", " ", "a", "!">>

\* C2 as stated: greet raises ValueError for an empty or blank name whatever
\* the greeting argument is.
C2_BlankNameAlwaysValueError ==
    (op = "greet" /\ IsStr(args.name) /\ ~HasText(args.name.v))
        => ret.kind = "ValueError" /\ ret.val = <<>>

\* C2 as amended: for an empty or blank name greet returns no message and
\* raises ValueError when the greeting is a text, TypeError when it is not.
C2_BlankNameErrorByGreetingType ==
    (op = "greet" /\ IsStr(args.name) /\ ~HasText(args.name.v))
        => /\ ret.val = <<>>
           /\ ret.kind = IF IsStr(args.greeting) THEN "ValueError" ELSE "TypeError"

\* C2, witness: a blank name refused under a text greeting.
C2_Witness ==
    /\ op = "greet"
    /\ args.name = Text(<<" ", "\t">>)
    /\ args.greeting = Text(<<"a">>)
    /\ ret.kind = "ValueError"

C4_TolerantBatchSkipsInvalid ==
    (op = "greet_multiple_safe" /\ IsList(args.names) /\ IsStr(args.greeting))
        => LET ns == args.names.v
               good == SelectSeq(ns, ValidName)
               bad == {i \in 1..Len(ns) : ~ValidName(ns[i])}
               summary == ret.log[Len(ret.log)]
           IN  /\ ret.kind = "ok"
               /\ Len(ret.val) = Len(good)
               /\ \A i \in 1..Len(good) :
                     ret.val[i] = Message(args.greeting.v, Trimmed(good[i].v))
               /\ summary.level = "INFO"
               /\ summary.data = <<Len(good), Cardinality(bad)>>
               /\ summary.data[1] + summary.data[2] = Len(ns)
               /\ Cardinality({i \in 1..Len(ret.log) : ret.log[i].level = "WARNING"})
                      = Cardinality(bad)

\* C4, witness: two valid names among an empty one and a value that is no
\* text: two messages, two skipped.
C4_Witness ==
    /\ op = "greet_multiple_safe"
    /\ IsList(args.names)
    /\ args.names.v = <<Text(<<"a">>), Text(<<>>), Text(<<" ", "a", " ">>), None>>
    /\ args.greeting = Text(Hello)
    /\ Len(ret.val) = 2
    /\ ret.log[Len(ret.log)].data = <<2, 2>>

\* C5: greeting_history is the sequence of the messages the successful
\* Greeter.greet calls returned since the last clear_history (or since
\* construction), in call order; a greet that succeeded just now has its
\* message last.
C5_HistoryIsWhatGreetReturned ==
    /\ greeting_history = returned
    /\ (op = "Greeter.greet" /\ ret.kind = "ok")
           => greeting_history[Len(greeting_history)] = ret.val

\* C5, witness: a greet that raised after two that succeeded.
C5_Witness ==
    /\ op = "Greeter.greet"
    /\ ret.kind = "ValueError"
    /\ Len(returned) = 2
    /\ Len(greeting_history) = 2

\* C6 as stated: get_statistics reports the number of successful greet
\* calls as total_greetings and the number of distinct trimmed names those
\* calls greeted as unique_names.
C6_UniqueNamesCountsNamesUsed ==
    (op = "Greeter.get_statistics")
        => /\ ret.kind = "ok"
           /\ ret.val.total_greetings = Len(returned)
           /\ ret.val.unique_names =
                  Cardinality({Trimmed(used[i]) : i \in 1..Len(used)})

\* C7 as stated: on a non-empty history get_statistics reports the number of
\* distinct names, a name being the text of a message between its first ", "
\* and its trailing "!", and the most frequent greeting word, a word being
\* the text before the first comma and a tie going to the earliest word.
C7_StatisticsFollowParsingReference ==
    (op = "Greeter.get_statistics" /\ greeting_history # <<>>)
        => LET h == greeting_history
               names == {TextBetweenFirstCommaSpaceAndBang(h[i]) : i \in 1..Len(h)}
               words == [i \in 1..Len(h) |-> TextBeforeFirstComma(h[i])]
           IN  /\ ret.kind = "ok"
               /\ ret.val = Statistics(Len(h), Cardinality(names),
                                       Text(MostFrequentEarliest(words)))

\* C8: clear_history leaves the history empty and the configuration as it
\* was, without error; on an empty history it changes nothing of the
\* Greeter; and a get_statistics right after it reports no greeting, no name
\* and no most common greeting.
C8_ClearHistoryIdempotentReset ==
    [][ /\ (op' = "Greeter.clear_history")
              => /\ ret'.kind = "ok"
                 /\ greeting_history' = <<>>
                 /\ UNCHANGED <<constructed, default_greeting, case_sensitive>>
                 /\ (greeting_history = <<>> => UNCHANGED greeter)
        /\ (op = "Greeter.clear_history" /\ op' = "Greeter.get_statistics")
              => ret' = Returned(Statistics(0, 0, None), <<>>)
      ]_vars

\* C8, witness: a clear_history that emptied a history of two messages.
C8_Witness ==
    /\ op = "Greeter.clear_history"
    /\ ret.log = <<LogEntry("INFO", "clear_history", 2)>>
    /\ greeting_history = <<>>

\* C9: the constructor raises TypeError for a default greeting that is no
\* text and ValueError for an empty or blank one, and creates no Greeter
\* then; and as long as a Greeter exists its default_greeting is non-empty
\* and is the constructor's argument trimmed, and its case_sensitive is the
\* constructor's argument.
C9_ConfigurationFixedAtConstruction ==
    /\ constructed
           => /\ ValidName(ctor.default_greeting)
              /\ default_greeting # <<>>
              /\ default_greeting = Trimmed(ctor.default_greeting.v)
              /\ case_sensitive = ctor.case_sensitive
    /\ (op = "Greeter")
           => /\ constructed <=> ret.kind = "ok"
              /\ ~IsStr(args.default_greeting) => ret.kind = "TypeError"
              /\ (IsStr(args.default_greeting) /\ ~HasText(args.default_greeting.v))
                     => ret.kind = "ValueError"

\* C9, witness: a Greeter built from a padded default greeting, after a
\* greet that succeeded, a clear_history and a greet that raised.
C9_Witness ==
    /\ constructed
    /\ ctor.default_greeting = Text(<<" ", "a", "b", " ">>)
    /\ ctor.case_sensitive = FALSE
    /\ op = "Greeter.greet"
    /\ ret.kind = "TypeError"
    /\ Len(greeting_history) = 1

\* C10: on a Greeter with case_sensitive false, greet(name) without a
\* greeting returns "<default greeting>, <the name title-cased and
\* trimmed>!" for a valid name and appends it to the history; for an empty
\* or blank name it raises ValueError and for a name that is no text
\* TypeError, as the function greet does, and the history stays as it was.
C10_CaseInsensitiveGreet ==
    [][ (op' = "Greeter.greet" /\ ~case_sensitive /\ args'.greeting = None)
            => LET name == args'.name
               IN  IF ~IsStr(name)
                   THEN /\ ret'.kind = "TypeError"
                        /\ ret'.kind = greet(name, Text(default_greeting)).kind
                        /\ UNCHANGED greeting_history
                   ELSE IF ~HasText(name.v)
                   THEN /\ ret'.kind = "ValueError"
                        /\ ret'.kind = greet(name, Text(default_greeting)).kind
                        /\ UNCHANGED greeting_history
                   ELSE /\ ret'.kind = "ok"
                        /\ ret'.val = Message(default_greeting, Trimmed(TitleCased(name.v)))
                        /\ greeting_history' = Append(greeting_history, ret'.val)
      ]_vars

\* C10, witness: "aB" greeted as "Ab" under the default greeting.
C10_Witness ==
    /\ op = "Greeter.greet"
    /\ ~case_sensitive
    /\ args.greeting = None
    /\ args.name = Text(<<"a", "B">>)
    /\ ret.kind = "ok"
    /\ ret.val = default_greeting \o <<",", " ", "A", "b", "!">>
    /\ greeting_history[Len(greeting_history)] = ret.val

====
